---- MODULE Spec2Model ----
(***************************************************************************)
(* A model of bpro/shape.py: planar shapes over a mesh, their extrusion    *)
(* into a volumetric shape (Shape2d.extrude), the subdivision of a         *)
(* rectangle (Rectangle.split) and the classification of the faces of a    *)
(* volumetric shape (Shape3d.comp).                                        *)
(*                                                                         *)
(* The mesh (bm) is a pool of vertices and of faces; a face is the tuple   *)
(* of its vertices and its stored normal.  A loop is a position on the     *)
(* boundary of a face: loop (f, i) starts at vertex i of face f and runs   *)
(* along the edge to the next vertex of f.  Vectors have integer           *)
(* components in units of 1/100000.                                        *)
(***************************************************************************)
EXTENDS Integers, Sequences, FiniteSets, TLC

VARIABLES bm, facesForRemoval, shapes, shape3d, cuts, result, err, last

vars == <<bm, facesForRemoval, shapes, shape3d, cuts, result, err, last>>

(* ------------------------------ bounds -------------------------------- *)

\* the largest number of boundary vertices of the initial face
MaxSides == 4
\* the largest number of parts of a split
MaxCuts == 2
\* the largest number of operations of one run
MaxOps == 2
\* the largest number of constituent shapes of a volumetric shape that is
\* classified on its own (CompSpec)
MaxShapes == 2

(* ----------------------------- constants ------------------------------ *)

x == "x"
y == "y"

front == "front"
back == "back"
left == "left"
right == "right"
top == "top"
bottom == "bottom"
side == "side"
all == "all"
None == "None"

Selectors == {front, back, left, right, top, bottom, side, all}

horizontalFaceThreshold == 70711
verticalNormalThreshold == 70711

ZeroNormal == <<0, 0, 0>>

Abs(a) == IF a < 0 THEN 0 - a ELSE a

Neg(n) == <<0 - n[1], 0 - n[2], 0 - n[3]>>

(* --------------------------- the mesh kernel --------------------------- *)

Loop(f, i) == [face |-> f, idx |-> i]

NoLoop == Loop(0, 0)

FaceVerts(m, f) == m.faces[f].verts

\* loop.vert
LoopVert(m, l) == FaceVerts(m, l.face)[l.idx]

\* loop.link_loop_next
link_loop_next(m, l) == Loop(l.face, (l.idx % Len(FaceVerts(m, l.face))) + 1)

\* the vertex a loop ends at
getEndVertex(m, l) == LoopVert(m, link_loop_next(m, l))

\* loop.edge: an edge is the set of its two vertices
LoopEdge(m, l) == {LoopVert(m, l), getEndVertex(m, l)}

RECURSIVE LoopsFrom(_, _)
\* every loop of the faces f, f+1, ... in the order of creation
LoopsFrom(m, f) ==
    IF f > Len(m.faces) THEN <<>>
    ELSE [i \in 1..Len(FaceVerts(m, f)) |-> Loop(f, i)] \o LoopsFrom(m, f + 1)

\* edge.link_loops: the loops around an edge
edge_link_loops(m, e) ==
    SelectSeq(LoopsFrom(m, 1), LAMBDA l : LoopEdge(m, l) = e)

\* edge.link_faces: the faces around an edge
edge_link_faces(m, e) ==
    LET ls == edge_link_loops(m, e) IN [i \in 1..Len(ls) |-> ls[i].face]

\* loop.link_loops: the other loops around the edge of a loop
link_loops(m, l) ==
    SelectSeq(edge_link_loops(m, LoopEdge(m, l)), LAMBDA k : k # l)

\* the position of a vertex: a + (t/d)(b - a) for vertices a and b, moved by
\* lift times the normal of the extruded face
Co(a, b, t, d, lift) == [a |-> a, b |-> b, t |-> t, d |-> d, lift |-> lift]

\* bm.verts.new(co): the mesh with one more vertex
verts_new(m, co) == [m EXCEPT !.verts = Append(@, co)]

\* bm.faces.new(verts): the mesh with one more face, whose normal is zero
faces_new(m, vs) ==
    [m EXCEPT !.faces = Append(@, [verts |-> vs, normal |-> ZeroNormal])]

\* bmesh.ops.reverse_faces: the winding and the normal of face f reversed
reverse_faces(m, f) ==
    LET vs == FaceVerts(m, f)
        n == Len(vs)
    IN [m EXCEPT !.faces[f] = [verts |-> [i \in 1..n |-> vs[n + 1 - i]],
                               normal |-> Neg(m.faces[f].normal)]]

\* bmesh.ops.extrude_face_region on the single face f: a copy of f on new
\* vertices (the extruded face, which keeps the normal of f) and one
\* quadrilateral over every edge of f; f itself stays in the mesh.
extrude_face_region(m, f) ==
    LET vs == FaceVerts(m, f)
        n == Len(vs)
        nv == Len(m.verts)
        nf == Len(m.faces)
        up(i) == nv + i
        nxt(i) == (i % n) + 1
        cap == [verts |-> [i \in 1..n |-> up(i)], normal |-> m.faces[f].normal]
        wall(i) == [verts |-> <<vs[i], vs[nxt(i)], up(nxt(i)), up(i)>>,
                    normal |-> ZeroNormal]
    IN [bm |-> [verts |-> m.verts \o [i \in 1..n |-> Co(vs[i], vs[i], 0, 1, 0)],
                faces |-> m.faces \o <<cap>> \o [i \in 1..n |-> wall(i)]],
        extrudedFace |-> nf + 1]

\* bmesh.ops.translate of the vertices of face f by depth times its normal
translate(m, f, depth) ==
    LET moved == {FaceVerts(m, f)[i] : i \in 1..Len(FaceVerts(m, f))}
        d == IF m.faces[f].normal = ZeroNormal THEN 0 ELSE depth
    IN [m EXCEPT !.verts = [v \in 1..Len(m.verts) |->
            IF v \in moved THEN [m.verts[v] EXCEPT !.lift = @ + d]
            ELSE m.verts[v]]]

(* ------------------------------ Shape2d ------------------------------- *)

Shape2d(firstLoop) ==
    [face |-> firstLoop.face, firstLoop |-> firstLoop, class |-> "Shape2d"]

Rectangle(firstLoop) ==
    [face |-> firstLoop.face, firstLoop |-> firstLoop, class |-> "Rectangle"]

\* getInitialShape: the first face of the mesh, turned upwards
getInitialShape(m) ==
    LET m2 == IF m.faces[1].normal[3] < 0 THEN reverse_faces(m, 1) ELSE m
    IN [bm |-> m2, shape |-> Shape2d(Loop(1, 1))]

NoMatrix == 0 - 1

Shape3d(shs, firstLoop) ==
    [shapes |-> shs, firstLoop |-> firstLoop, rotationMatrix |-> NoMatrix]

NoShape3d == Shape3d(<<>>, NoLoop)

RECURSIVE findLoop(_, _, _, _)
\* the search of Shape2d.extrude for the loop of the face that connects the
\* original and the extruded face: the first of loops[i..] whose opposite
\* edge lies on the extruded face, and the last loop when there is none.
\* Reading the second face of an edge that has one face is an IndexError.
findLoop(m, loops, i, extrudedFace) ==
    LET loop == loops[i]
        oppositeLoop == link_loop_next(m, link_loop_next(m, loop))
        oppositeEdgeFaces == edge_link_faces(m, LoopEdge(m, oppositeLoop))
    IN IF oppositeEdgeFaces[1] = extrudedFace
       THEN [loop |-> loop, oppositeLoop |-> oppositeLoop, err |-> None]
       ELSE IF Len(oppositeEdgeFaces) < 2
       THEN [loop |-> loop, oppositeLoop |-> oppositeLoop, err |-> "IndexError"]
       ELSE IF oppositeEdgeFaces[2] = extrudedFace \/ i = Len(loops)
       THEN [loop |-> loop, oppositeLoop |-> oppositeLoop, err |-> None]
       ELSE findLoop(m, loops, i + 1, extrudedFace)

\* the test of Shape2d.extrude for the horizontal extruded face
extrudedFaceIsHorizontal(normal) == normal[3] > verticalNormalThreshold

RECURSIVE walkSides(_, _, _, _, _)
\* the walk around the faces that connect the original and the extruded
\* face: one Rectangle per face, until the walk is back at firstLoop
walkSides(m, loop, firstLoop, acc, fuel) ==
    LET acc2 == Append(acc, Rectangle(loop))
        across == link_loops(m, link_loop_next(m, loop))
    IN IF across = <<>> THEN [shapes |-> acc2, err |-> "IndexError"]
       ELSE LET next == link_loop_next(m, across[1])
            IN IF next = firstLoop THEN [shapes |-> acc2, err |-> None]
               ELSE IF fuel = 0 THEN [shapes |-> acc2, err |-> "NoReturn"]
               ELSE walkSides(m, next, firstLoop, acc2, fuel - 1)

\* extrudeAnchor with the loop of the first side face for the firstLoop of the shape
extrudeAnchorSide(self, loop) == loop

\* the boundary reference Shape2d.extrude hands to Shape3d
extrudeAnchor(self, loop) == self.firstLoop

\* Shape2d.extrude(depth)
extrude(m, self, depth) ==
    LET originalFace == self.face
        geom == extrude_face_region(m, originalFace)
        extrudedFace == geom.extrudedFace
        m2 == translate(geom.bm, extrudedFace, depth)
        edge == LoopEdge(m2, self.firstLoop)
        loops == edge_link_loops(m2, edge)
        found == findLoop(m2, loops, 1, extrudedFace)
        capLoops == link_loops(m2, found.oppositeLoop)
        none == [bm |-> m2, shape3d |-> NoShape3d, new |-> <<>>, err |-> "IndexError"]
    IN IF found.err # None \/ capLoops = <<>> THEN none
       ELSE LET base == <<self, Shape2d(capLoops[1])>>
                sides == IF extrudedFaceIsHorizontal(m2.faces[extrudedFace].normal)
                         THEN walkSides(m2, found.loop, found.loop, <<>>,
                                        Len(LoopsFrom(m2, 1)))
                         ELSE [shapes |-> <<>>, err |-> None]
            IN IF sides.err # None THEN [none EXCEPT !.err = sides.err]
               ELSE [bm |-> m2,
                     shape3d |-> Shape3d(base \o sides.shapes,
                                         extrudeAnchor(self, found.loop)),
                     new |-> Tail(base) \o sides.shapes,
                     err |-> None]

(* ----------------------------- Rectangle ------------------------------ *)

\* a cut parameter, the fraction num/den of the reference edge
CutValue(num, den) == [kind |-> "cut", num |-> num, den |-> den, shape |-> Shape2d(NoLoop)]

\* a shape kept in the place of a cut parameter
CutShape(shape) == [kind |-> "shape", num |-> 0, den |-> 1, shape |-> shape]

RECURSIVE Sum(_, _)
\* parts[1] + ... + parts[i]
Sum(parts, i) == IF i = 0 THEN 0 ELSE parts[i] + Sum(parts, i - 1)

\* pro.op_split.calculateSplit for proportional sizes: one entry
\* [cut parameter, rule] per part, the cut parameter being the share of the
\* reference edge that ends the part; the rule of part i is i
calculateSplit(parts) ==
    [i \in 1..Len(parts) |-> <<CutValue(Sum(parts, i), Sum(parts, Len(parts))), i>>]

\* Rectangle.createSplitShape
createSplitShape(m, verts) ==
    LET m2 == faces_new(m, verts)
    IN [bm |-> m2, shape |-> Rectangle(Loop(Len(m2.faces), 1))]

\* splitVerts with the order of the x direction for both directions
splitVertsOneOrder(direction, prevVert1, v1, v2, prevVert2) ==
    <<prevVert1, v1, v2, prevVert2>>

\* the order of the vertices of a newly cut rectangle
splitVerts(direction, prevVert1, v1, v2, prevVert2) ==
    IF direction = x THEN <<prevVert1, v1, v2, prevVert2>>
    ELSE <<prevVert2, prevVert1, v1, v2>>

\* storeShape with the shape in the second place of the entry
storeShapeSecond(cut, shape) == [cut EXCEPT ![2] = CutShape(shape)]

\* cut[0] = shape
storeShape(cut, shape) == [cut EXCEPT ![1] = CutShape(shape)]

\* the vertices that close the last cut section
lastVerts(direction, prevVert1, end1, end2, prevVert2) ==
    splitVerts(direction, prevVert1, end1, end2, prevVert2)

RECURSIVE splitLoop(_, _, _, _, _, _, _)
\* the loop of Rectangle.split over every cut section but the last:
\* st = [bm, cuts, prevVert1, prevVert2]
splitLoop(st, cutIndex, direction, origin1, end1, origin2, end2) ==
    IF cutIndex > Len(st.cuts) - 1 THEN st
    ELSE LET cut == st.cuts[cutIndex]
             cutValue == cut[1]
             m1 == verts_new(st.bm, Co(origin1, end1, cutValue.num, cutValue.den, 0))
             v1 == Len(m1.verts)
             m2 == verts_new(m1, Co(origin2, end2, cutValue.num, cutValue.den, 0))
             v2 == Len(m2.verts)
             made == createSplitShape(m2,
                        splitVerts(direction, st.prevVert1, v1, v2, st.prevVert2))
         IN splitLoop([bm |-> made.bm,
                       cuts |-> [st.cuts EXCEPT ![cutIndex] = storeShape(cut, made.shape)],
                       prevVert1 |-> v1,
                       prevVert2 |-> v2],
                      cutIndex + 1, direction, origin1, end1, origin2, end2)

\* markForRemoval with a new list in the place of the appended one
markForRemovalAlone(removal, face) == <<face>>

\* what Rectangle.split does to the list of the faces for removal
markForRemoval(removal, face) == Append(removal, face)

\* Rectangle.split(direction, parts)
split(m, removal, self, direction, parts) ==
    LET referenceLoop == IF direction = x THEN self.firstLoop
                         ELSE link_loop_next(m, self.firstLoop)
        cuts0 == calculateSplit(parts)
        oppositeLoop == link_loop_next(m, link_loop_next(m, referenceLoop))
        origin1 == LoopVert(m, referenceLoop)
        origin2 == getEndVertex(m, oppositeLoop)
        end1 == getEndVertex(m, referenceLoop)
        end2 == LoopVert(m, oppositeLoop)
        st == splitLoop([bm |-> m, cuts |-> cuts0,
                         prevVert1 |-> origin1, prevVert2 |-> origin2],
                        1, direction, origin1, end1, origin2, end2)
        \* the right-hand side of the last assignment is evaluated first
        made == createSplitShape(st.bm,
                    lastVerts(direction, st.prevVert1, end1, end2, st.prevVert2))
        n == Len(st.cuts)
    IN IF n = 0
       THEN [bm |-> made.bm, facesForRemoval |-> removal, cuts |-> <<>>,
             err |-> "IndexError"]
       ELSE [bm |-> made.bm,
             facesForRemoval |-> markForRemoval(removal, self.face),
             cuts |-> [st.cuts EXCEPT ![n] = storeShape(st.cuts[n], made.shape)],
             err |-> None]

(* ------------------------------ Shape3d ------------------------------- *)

\* the rotation of Shape3d: its z-axis is the global z-axis, its x-axis runs
\* along firstLoop; q counts the quarter turns of firstLoop from the global
\* x-axis
rotate(q, n) ==
    CASE q = 0 -> n
      [] q = 1 -> <<n[2], 0 - n[1], n[3]>>
      [] q = 2 -> <<0 - n[1], 0 - n[2], n[3]>>
      [] OTHER -> <<0 - n[2], n[1], n[3]>>

\* Shape3d.getRotationMatrix: calculated on the first call, kept from then on
getRotationMatrix(self, quarter) ==
    IF self.rotationMatrix = NoMatrix THEN quarter ELSE self.rotationMatrix

\* shapeTypeOf with the x and y components compared by their signed values
shapeTypeOfSigned(normal) ==
    IF Abs(normal[3]) > horizontalFaceThreshold
    THEN [shapeType |-> IF normal[3] > 0 THEN top ELSE bottom, isVertical |-> FALSE]
    ELSE IF normal[1] > normal[2]
    THEN [shapeType |-> IF normal[1] > 0 THEN front ELSE back, isVertical |-> TRUE]
    ELSE [shapeType |-> IF normal[2] > 0 THEN right ELSE left, isVertical |-> TRUE]

\* the type Shape3d.comp gives a 2D-shape by its normal alone
shapeTypeOf(normal) ==
    IF Abs(normal[3]) > horizontalFaceThreshold
    THEN [shapeType |-> IF normal[3] > 0 THEN top ELSE bottom, isVertical |-> FALSE]
    ELSE IF Abs(normal[1]) > Abs(normal[2])
    THEN [shapeType |-> IF normal[1] > 0 THEN front ELSE back, isVertical |-> TRUE]
    ELSE [shapeType |-> IF normal[2] > 0 THEN right ELSE left, isVertical |-> TRUE]

\* resolve without the fallback to all
resolveNoAll(t, parts) ==
    IF t.shapeType \notin parts
    THEN IF side \in parts /\ t.isVertical THEN side ELSE None
    ELSE t.shapeType

\* resolve with side for the horizontal 2D-shapes too
resolveSideAny(t, parts) ==
    IF t.shapeType \notin parts
    THEN IF side \in parts THEN side
         ELSE IF all \in parts THEN all
         ELSE None
    ELSE t.shapeType

\* the selector of parts a 2D-shape of that type falls under, or None
resolve(t, parts) ==
    IF t.shapeType \notin parts
    THEN IF side \in parts /\ t.isVertical THEN side
         ELSE IF all \in parts THEN all
         ELSE None
    ELSE t.shapeType

\* result[shapeType].append(shape)
addToResult(res, shapeType, shape) ==
    IF shapeType = None THEN res
    ELSE IF shapeType \notin DOMAIN res THEN res @@ (shapeType :> <<shape>>)
    ELSE [res EXCEPT ![shapeType] = Append(@, shape)]

EmptyResult == [s \in {} |-> <<>>]

RECURSIVE compLoop(_, _, _, _, _, _)
\* the loop of Shape3d.comp over the 2D-shapes i, i+1, ...
compLoop(m, shs, i, rotationMatrix, parts, res) ==
    IF i > Len(shs) THEN res
    ELSE LET shape == shs[i]
             normal == rotate(rotationMatrix, m.faces[shape.face].normal)
             shapeType == resolve(shapeTypeOf(normal), parts)
         IN compLoop(m, shs, i + 1, rotationMatrix, parts,
                     addToResult(res, shapeType, shape))

\* Shape3d.comp(parts)
comp(m, self, quarter, parts) ==
    LET rotationMatrix == getRotationMatrix(self, quarter)
    IN [shape3d |-> [self EXCEPT !.rotationMatrix = rotationMatrix],
        result |-> compLoop(m, self.shapes, 1, rotationMatrix, parts, EmptyResult)]

(* --------------------------- the state machine ------------------------- *)

\* the normals of the initial face
MeshNormals ==
    {<<0, 0, 100000>>, <<0, 0, 0 - 100000>>, <<100000, 0, 0>>, <<0, 70711, 70711>>}

\* the normals of the faces of a volumetric shape that is classified on its own
CompNormals ==
    {<<0, 0, 100000>>, <<0, 0, 0 - 100000>>, <<100000, 0, 0>>, <<0 - 100000, 0, 0>>,
     <<0, 100000, 0>>, <<0, 0 - 100000, 0>>, <<0, 0, 0>>,
     <<0, 70711, 70711>>, <<0, 0 - 70710, 0 - 70712>>, <<70711, 70711, 0>>}

Depths == {0 - 1, 2}

Quarters == 0..3

\* the sizes of the parts of a split: none, <<1>>, <<1, 2>>, <<1, 2, 1>>, ...
PartsLists == {[i \in 1..n |-> IF i % 2 = 1 THEN 1 ELSE 2] : n \in 0..MaxCuts}

\* the selector sets of the classifications that follow an extrusion
MainParts == {{all}, {top, bottom, side}, {front, back, left, right, top, bottom}}

\* what the last operation was called with, and the sizes of the mesh and the
\* list of the faces for removal before it
Last(op, count, shape, arg, m, removal) ==
    [op |-> op, count |-> count, shape |-> shape, depth |-> arg.depth,
     direction |-> arg.direction, parts |-> arg.parts, selectors |-> arg.selectors,
     nVerts |-> Len(m.verts), nFaces |-> Len(m.faces), removal |-> removal]

NoArg == [depth |-> 0, direction |-> x, parts |-> <<>>, selectors |-> {}]

\* a mesh of one face with n vertices
OneFace(n, normal) ==
    [verts |-> [i \in 1..n |-> Co(i, i, 0, 1, 0)],
     faces |-> <<[verts |-> [i \in 1..n |-> i], normal |-> normal]>>]

\* The initial shape is the one getInitialShape gives, or a Shape2d or a
\* Rectangle made of a loop of the face.
Init ==
    \E n \in 3..MaxSides, normal \in MeshNormals, how \in {"initial", "Shape2d", "Rectangle"} :
        LET m == OneFace(n, normal)
            start == CASE how = "initial" -> getInitialShape(m)
                       [] how = "Shape2d" -> [bm |-> m, shape |-> Shape2d(Loop(1, 1))]
                       [] OTHER -> [bm |-> m, shape |-> Rectangle(Loop(1, 2))]
        IN /\ bm = start.bm
           /\ shapes = <<start.shape>>
           /\ facesForRemoval = <<>>
           /\ shape3d = NoShape3d
           /\ cuts = <<>>
           /\ result = EmptyResult
           /\ err = None
           /\ last = Last("init", 0, start.shape, NoArg, start.bm, <<>>)

Running == err = None /\ last.count < MaxOps

Extrude ==
    /\ Running
    /\ \E s \in 1..Len(shapes), depth \in Depths :
        \E r \in {extrude(bm, shapes[s], depth)} :
           /\ bm' = r.bm
           /\ shape3d' = IF r.err = None THEN r.shape3d ELSE shape3d
           /\ shapes' = shapes \o r.new
           /\ err' = r.err
           /\ last' = Last("extrude", last.count + 1, shapes[s],
                           [NoArg EXCEPT !.depth = depth], bm, facesForRemoval)
    /\ cuts' = <<>>
    /\ result' = EmptyResult
    /\ UNCHANGED facesForRemoval

Split ==
    /\ Running
    /\ \E s \in 1..Len(shapes), direction \in {x, y}, parts \in PartsLists :
        /\ shapes[s].class = "Rectangle"
        /\ \E r \in {split(bm, facesForRemoval, shapes[s], direction, parts)} :
              /\ bm' = r.bm
              /\ facesForRemoval' = r.facesForRemoval
              /\ cuts' = r.cuts
              /\ shapes' = shapes \o [i \in 1..Len(r.cuts) |-> r.cuts[i][1].shape]
              /\ err' = r.err
              /\ last' = Last("split", last.count + 1, shapes[s],
                              [NoArg EXCEPT !.direction = direction, !.parts = parts],
                              bm, facesForRemoval)
    /\ result' = EmptyResult
    /\ UNCHANGED shape3d

Comp(partsSets) ==
    /\ Running
    /\ shape3d # NoShape3d
    /\ \E parts \in partsSets, quarter \in Quarters :
        \E r \in {comp(bm, shape3d, quarter, parts)} :
           /\ shape3d' = r.shape3d
           /\ result' = r.result
           /\ last' = Last("comp", last.count + 1, last.shape,
                           [NoArg EXCEPT !.selectors = parts], bm, facesForRemoval)
    /\ cuts' = <<>>
    /\ UNCHANGED <<bm, facesForRemoval, shapes, err>>

CompAfter == Comp(MainParts)

Next == Extrude \/ Split \/ CompAfter

Spec == Init /\ [][Next]_vars

\* A volumetric shape of 1..MaxShapes faces with any normals, made by
\* Shape3d(shapes, firstLoop), and classified once with any selector set.
CompInit ==
    \E k \in 1..MaxShapes :
      \E normals \in [1..k -> CompNormals] :
        LET m == [verts |-> [v \in 1..(4 * k) |-> Co(v, v, 0, 1, 0)],
                  faces |-> [f \in 1..k |->
                      [verts |-> [i \in 1..4 |-> 4 * (f - 1) + i], normal |-> normals[f]]]]
            shs == [f \in 1..k |-> Shape2d(Loop(f, 1))]
        IN /\ bm = m
           /\ shapes = shs
           /\ facesForRemoval = <<>>
           /\ shape3d = Shape3d(shs, Loop(1, 1))
           /\ cuts = <<>>
           /\ result = EmptyResult
           /\ err = None
           /\ last = Last("init", MaxOps - 1, shs[1], NoArg, m, <<>>)

CompAny == Comp(SUBSET Selectors)

CompNext == CompAny

CompSpec == CompInit /\ [][CompNext]_vars

(* ------------------------------ properties ---------------------------- *)

\* the normal of the i-th 2D-shape of shape3d in the frame of shape3d
LocalNormal(i) ==
    rotate(shape3d.rotationMatrix, bm.faces[shape3d.shapes[i].face].normal)

\* the i-th 2D-shape of shape3d is in the bucket of selector s
InBucket(s, i) ==
    s \in DOMAIN result /\ \E j \in 1..Len(result[s]) : result[s][j] = shape3d.shapes[i]

\* the number of times the i-th 2D-shape of shape3d is in the bucket of s
TimesInBucket(s, i) ==
    IF s \in DOMAIN result
    THEN Cardinality({j \in 1..Len(result[s]) : result[s][j] = shape3d.shapes[i]})
    ELSE 0

IsHorizontalNormal(n) == Abs(n[3]) > horizontalFaceThreshold

\* the threshold rule of the classification
ThresholdBucket(n) ==
    IF IsHorizontalNormal(n) THEN (IF n[3] > 0 THEN top ELSE bottom)
    ELSE IF Abs(n[1]) > Abs(n[2]) THEN (IF n[1] > 0 THEN front ELSE back)
    ELSE (IF n[2] > 0 THEN right ELSE left)

Constituents == 1..Len(shape3d.shapes)

\* C1: after comp with the selectors {all}, the only key of the result is
\* all, and every 2D-shape of the 3D-shape is in its bucket exactly once.
CompAllComplete ==
    (last.op = "comp" /\ last.selectors = {all}) =>
        /\ DOMAIN result = {all}
        /\ Len(result[all]) = Len(shape3d.shapes)
        /\ \A i \in Constituents : TimesInBucket(all, i) = 1

CompAllReached ==
    /\ last.op = "comp" /\ last.selectors = {all}
    /\ Len(shape3d.shapes) = 2
    /\ IsHorizontalNormal(LocalNormal(1))
    /\ ~IsHorizontalNormal(LocalNormal(2))

SixSelectors == {front, back, left, right, top, bottom}

\* C2: after comp with the six selectors front, back, left, right, top and
\* bottom, every 2D-shape is in at most one bucket, and in the bucket the
\* threshold rule gives its local normal; (0,0,1) is top, (1,0,0) is front,
\* (0,1,0) is right and (0,-1,0) is left.
CompExclusive ==
    (last.op = "comp" /\ last.selectors = SixSelectors) =>
        \A i \in Constituents :
            /\ Cardinality({s \in Selectors : InBucket(s, i)}) <= 1
            /\ \A s \in Selectors : InBucket(s, i) <=> s = ThresholdBucket(LocalNormal(i))
            /\ LocalNormal(i) = <<0, 0, 100000>> => InBucket(top, i)
            /\ LocalNormal(i) = <<100000, 0, 0>> => InBucket(front, i)
            /\ LocalNormal(i) = <<0, 100000, 0>> => InBucket(right, i)
            /\ LocalNormal(i) = <<0, 0 - 100000, 0>> => InBucket(left, i)

CompExclusiveReached ==
    /\ last.op = "comp" /\ last.selectors = SixSelectors
    /\ Len(shape3d.shapes) = 2
    /\ LocalNormal(1) = <<0, 100000, 0>> /\ InBucket(right, 1)
    /\ LocalNormal(2) = <<0, 0 - 100000, 0>> /\ InBucket(left, 2)

\* C3: a 2D-shape whose tentative selector is not requested goes to side when
\* it is vertical and side is requested, else to all when all is requested,
\* else to no bucket; a horizontal 2D-shape is never in side; every key of
\* the result is a requested selector with a non-empty bucket.
CompFallback ==
    last.op = "comp" =>
        /\ \A i \in Constituents :
            LET n == LocalNormal(i)
                vertical == ~IsHorizontalNormal(n)
                bucket == IF vertical /\ side \in last.selectors THEN side
                          ELSE IF all \in last.selectors THEN all
                          ELSE None
            IN /\ ThresholdBucket(n) \notin last.selectors =>
                    \A s \in Selectors : InBucket(s, i) <=> s = bucket
               /\ ~vertical => ~InBucket(side, i)
        /\ \A s \in DOMAIN result : s \in last.selectors /\ result[s] # <<>>

CompFallbackReached ==
    /\ last.op = "comp" /\ last.selectors = {side, all, top}
    /\ Len(shape3d.shapes) = 2
    /\ ThresholdBucket(LocalNormal(1)) = front /\ InBucket(side, 1)
    /\ ThresholdBucket(LocalNormal(2)) = bottom /\ InBucket(all, 2)

\* the face Shape2d.extrude made opposite the face of the extruded shape
ExtrudedFace == last.nFaces + 1

\* the number of boundary vertices of the shape of the last operation
Sides == Len(FaceVerts(bm, last.shape.face))

\* C4: the extrusion by a depth other than 0 of a shape whose extruded face is
\* horizontal (the vertical component of its normal exceeds the threshold in
\* absolute value) and has N edges gives a 3D-shape of N + 2 shapes: the
\* shape itself, the extruded face, and N Rectangles.
ExtrudeSideCount ==
    (/\ last.op = "extrude" /\ err = None /\ last.depth # 0
     /\ Abs(bm.faces[ExtrudedFace].normal[3]) > verticalNormalThreshold) =>
        /\ Len(shape3d.shapes) = Sides + 2
        /\ shape3d.shapes[1] = last.shape
        /\ shape3d.shapes[2].face = ExtrudedFace
        /\ \A i \in 3..(Sides + 2) : shape3d.shapes[i].class = "Rectangle"

\* C5: the extrusion of a shape whose extruded face is not horizontal fails
\* with UnsupportedExtrusionError, and no extrusion returns a 3D-shape of
\* the shape and the extruded face alone.
ExtrudeObliqueFails ==
    last.op = "extrude" =>
        /\ Abs(bm.faces[ExtrudedFace].normal[3]) <= verticalNormalThreshold =>
                err = "UnsupportedExtrusionError"
        /\ err = None => Len(shape3d.shapes) > 2

SplitDone == last.op = "split" /\ err = None

\* C6 as claimed: split returns one entry per part, and the entries still
\* hold the cut parameters, which increase strictly and end at 1.
SplitKeepsCutParameters ==
    SplitDone =>
        /\ Len(cuts) = Len(last.parts)
        /\ \A i \in 1..Len(cuts) :
            /\ cuts[i][1].kind = "cut"
            /\ i < Len(cuts) =>
                 cuts[i][1].num * cuts[i + 1][1].den < cuts[i + 1][1].num * cuts[i][1].den
            /\ i = Len(cuts) => cuts[i][1].num = cuts[i][1].den

\* C6: split returns one entry per part; the first slot of entry i holds the
\* Rectangle of the i-th new face in the place of the cut parameter, and the
\* second slot is what calculateSplit put there.
SplitReturnsShapes ==
    SplitDone =>
        /\ Len(cuts) = Len(last.parts)
        /\ \A i \in 1..Len(cuts) :
            /\ cuts[i][1] = CutShape(Rectangle(Loop(last.nFaces + i, 1)))
            /\ cuts[i][2] = calculateSplit(last.parts)[i][2]

SplitReturnsShapesReached == SplitDone /\ Len(cuts) = 2

\* C7: split on a shape that has not exactly 4 boundary vertices, or with
\* fewer than 1 cut, raises DegenerateShapeError before a vertex or a face is
\* created and before the face is put on the list of the faces for removal.
SplitRejectsDegenerate ==
    (last.op = "split" /\ (Sides # 4 \/ Len(last.parts) < 1)) =>
        /\ err = "DegenerateShapeError"
        /\ Len(bm.verts) = last.nVerts
        /\ Len(bm.faces) = last.nFaces
        /\ facesForRemoval = last.removal

ExtrudeDone == last.op = "extrude" /\ err = None

\* C8 as claimed: the firstLoop of the 3D-shape extrude returns is the loop of
\* the first side face on the first edge of the extruded shape, not the
\* firstLoop of that shape.
ExtrudeAnchoredAtSide ==
    ExtrudeDone =>
        /\ shape3d.firstLoop.face > ExtrudedFace
        /\ LoopEdge(bm, shape3d.firstLoop) = LoopEdge(bm, last.shape.firstLoop)

\* C8: the firstLoop of the 3D-shape extrude returns is the firstLoop of the
\* extruded shape; the loop of the first side face on the same edge is the
\* firstLoop of the first Rectangle only.
ExtrudeAnchoredAtBase ==
    ExtrudeDone =>
        /\ shape3d.firstLoop = last.shape.firstLoop
        /\ shape3d.firstLoop.face = shape3d.shapes[1].face
        /\ Len(shape3d.shapes) > 2 =>
            /\ shape3d.shapes[3].firstLoop # shape3d.firstLoop
            /\ shape3d.shapes[3].face > ExtrudedFace
            /\ LoopEdge(bm, shape3d.shapes[3].firstLoop) = LoopEdge(bm, shape3d.firstLoop)

ExtrudeAnchoredAtBaseReached == ExtrudeDone /\ Len(shape3d.shapes) = 6

\* the vertices of the split face from its reference loop on: the origin and
\* the end of the reference edge, then the end and the origin of the opposite
\* edge
SplitCorner(k) ==
    LET w == FaceVerts(bm, last.shape.face)
        r == IF last.direction = x THEN last.shape.firstLoop.idx
             ELSE (last.shape.firstLoop.idx % Len(w)) + 1
    IN w[((r - 1 + k) % Len(w)) + 1]

\* the vertex on the reference edge where cut section k ends
SplitRef(k) ==
    IF k = 0 THEN SplitCorner(0)
    ELSE IF k = Len(cuts) THEN SplitCorner(1)
    ELSE last.nVerts + 2 * k - 1

\* the vertex on the opposite edge where cut section k ends
SplitOpp(k) ==
    IF k = 0 THEN SplitCorner(3)
    ELSE IF k = Len(cuts) THEN SplitCorner(2)
    ELSE last.nVerts + 2 * k

\* C9: a split into n sections makes n faces of four vertices and 2(n - 1)
\* vertices; section 1 starts at the origins of the reference and the
\* opposite edge, section k + 1 starts at the two vertices section k ends at,
\* section n ends at the ends of the two edges; the vertices are in the order
\* (prevRef, newRef, newOpp, prevOpp) for x, (prevOpp, prevRef, newRef,
\* newOpp) for y; the new vertices lie inside the two edges.
SplitTiling ==
    SplitDone =>
        LET n == Len(cuts)
        IN /\ Len(bm.faces) = last.nFaces + n
           /\ Len(bm.verts) = last.nVerts + 2 * (n - 1)
           /\ \A k \in 1..n :
                FaceVerts(bm, last.nFaces + k) =
                    IF last.direction = x
                    THEN <<SplitRef(k - 1), SplitRef(k), SplitOpp(k), SplitOpp(k - 1)>>
                    ELSE <<SplitOpp(k - 1), SplitRef(k - 1), SplitRef(k), SplitOpp(k)>>
           /\ \A k \in 1..(n - 1) :
                LET v1 == bm.verts[SplitRef(k)]
                    v2 == bm.verts[SplitOpp(k)]
                IN /\ v1.a = SplitCorner(0) /\ v1.b = SplitCorner(1)
                   /\ v2.a = SplitCorner(3) /\ v2.b = SplitCorner(2)
                   /\ 0 < v1.t /\ v1.t < v1.d /\ v2.t = v1.t /\ v2.d = v1.d

SplitTilingReached ==
    /\ SplitDone /\ Len(cuts) = 2 /\ last.direction = y /\ Sides = 4
    /\ last.nFaces > 1

\* C10: a step changes the list of the faces for removal only when it is a
\* split that returns, which appends the face of the split shape once; no
\* step removes or changes a face of the mesh, and every shape returned
\* before the step refers to a face of the mesh after it.
DeferredRemoval ==
    [][/\ facesForRemoval' =
            IF last'.op = "split" /\ err' = None
            THEN Append(facesForRemoval, last'.shape.face)
            ELSE facesForRemoval
       /\ Len(bm'.faces) >= Len(bm.faces) + (IF last'.op = "split" THEN Len(cuts') ELSE 0)
       /\ \A f \in 1..Len(bm.faces) : bm'.faces[f] = bm.faces[f]
       /\ \A i \in 1..Len(shapes) :
            shapes'[i] = shapes[i] /\ shapes'[i].face \in 1..Len(bm'.faces)]_vars

DeferredRemovalReached ==
    /\ last.op = "extrude" /\ err = None
    /\ Len(facesForRemoval) = 1
    /\ facesForRemoval[1] \in 1..Len(bm.faces)
    /\ last.shape.face > 1

====
